---- MODULE Spec2Model ----
(***************************************************************************)
(* Red-envelope engine of linux-do/credit: Create, Claim and the expiry   *)
(* sweeper (refundExpiredRedEnvelopes) over the relational store.          *)
(*                                                                         *)
(* Money is counted in cents: Create accepts only amounts whose decimal    *)
(* exponent is >= -2, and every share is rounded to 2 places, so each      *)
(* stored decimal is an integer number of 0.01 units.                      *)
(*                                                                         *)
(* The store is READ COMMITTED with row locks.  A transaction is in flight *)
(* from the statement that takes its first row lock to its commit; its     *)
(* writes become visible at the commit.                                    *)
(***************************************************************************)
EXTENDS Integers, Sequences, FiniteSets, Bags, TLC

VARIABLES
    now,        \* wall clock (time.Now()), in units of 24 hours
    balance,    \* users.available_balance, by user id
    envelopes,  \* red_envelopes rows; the id of a row is its index
    claims,     \* red_envelope_claims rows (bag of [env, user, amount])
    orders,     \* orders rows written by this package (bag)
    createTx,   \* by user: the Create transaction holding the user's row lock
    claimTx,    \* Claim transactions in flight, each holding an envelope row lock
    sweep,      \* by sweeper run: the envelopes of its query still to process
    resp        \* the last answer of a handler (c.JSON) or log line of the sweeper, where observed

\* the store and the transactions in flight
store == <<balance, envelopes, claims, orders>>

vars == <<now, balance, envelopes, claims, orders, createTx, claimTx, sweep, resp>>

----------------------------------------------------------------------------
\* Bounds of the model

NumUsers == 3
MaxEnvelopes == 1
MaxTime == 2
CrowdUsers == 6
ApiUsers == 2

\* the pages and page sizes a ListRequest asks for
MaxPage == 2

MaxPageSize == 2

\* the claimers and the largest pool, in cents, of the scenario that splits
\* Random envelopes
SplitUsers == 4

MaxPool == 9

\* Program constants

\* ExpiresAt = time.Now().Add(24 * time.Hour): one clock unit
TTL == 1
\* decimal.NewFromFloat(0.01), in cents
MinAmount == 1

Users == DOMAIN balance
\* the runs of the periodic sweep task
Sweepers == DOMAIN sweep
NoTx == [active |-> FALSE]

Fixed == "fixed"
Random == "random"
Active == "active"
Finished == "finished"
Expired == "expired"

\* A Create request as the handler sees it: type, total_amount in cents with
\* the exponent of its decimal, total_count, whether pay_key verifies, and
\* what IsRedEnvelopeEnabled answers for it.
Request(type, totalAmount, totalCount) ==
    [ type |-> type, totalAmount |-> totalAmount, exponent |-> -2,
      totalCount |-> totalCount, payKeyOk |-> TRUE, featureEnabled |-> TRUE ]

\* Create requests the clients send
CreateRequests ==
    { Request(Fixed,  1000, 3),
      Request(Fixed,  1,    2),
      Request(Random, 3,    2),
      Request(Random, 1,    2),
      Request(Random, 0,    1) }

\* Create requests of the many-claimers scenario: small amounts over many shares
CrowdRequests ==
    { Request(Fixed,  9,    6),
      Request(Fixed,  5,    6) }

\* Create requests of the scenario that observes the responses: two that pass
\* the checks, and one for each way to fail them
ApiRequests ==
    { Request(Fixed,  3, 2),
      Request(Random, 3, 1),
      Request(Fixed,  5, 2),
      Request(Fixed,  2, 3),
      Request(Random, 0, 1),
      [Request(Fixed, 1, 1) EXCEPT !.exponent = -3],
      [Request(Fixed, 1, 1) EXCEPT !.payKeyOk = FALSE],
      [Request(Fixed, 1, 1) EXCEPT !.featureEnabled = FALSE] }

\* the codes Claim requests carry: the code of envelope e is e
Codes == 1..MaxEnvelopes

\* no response observed yet
NoResp == [op |-> "none"]

----------------------------------------------------------------------------
\* Helpers

RECURSIVE SumSet(_, _)
\* sum of f[x] over the finite set S
SumSet(S, f) ==
    IF S = {} THEN 0
    ELSE LET x == CHOOSE y \in S : TRUE
         IN  f[x] + SumSet(S \ {x}, f)

\* sum of the amount field over the rows of bag B that satisfy Sel
SumAmounts(B, Sel(_)) ==
    LET rows == {r \in BagToSet(B) : Sel(r)}
    IN  SumSet(rows, [r \in rows |-> r.amount * CopiesIn(r, B)])

\* number of rows of bag B that satisfy Sel
CountRows(B, Sel(_)) ==
    LET rows == {r \in BagToSet(B) : Sel(r)}
    IN  BagCardinality([r \in rows |-> CopiesIn(r, B)])

EnvIds == 1..Len(envelopes)

----------------------------------------------------------------------------
\* decimal arithmetic

\* a.Div(n).Round(2) for a in cents: Div keeps 16 digits, Round(2) rounds half
\* away from zero; for the denominators of this model the 16-digit quotient
\* never sits within 1e-16 of a half cent unless it is exactly one.
DivRound2(a, n) ==
    IF a >= 0 THEN (2 * a + n) \div (2 * n)
    ELSE -((2 * (-a) + n) \div (2 * n))

\* PerAmountTooSmall of a Create without the per-share check
PerAmountTooSmallNever(req) == FALSE

\* perAmount.LessThan(0.01) with perAmount = TotalAmount.Div(TotalCount)
PerAmountTooSmall(req) == req.totalAmount < MinAmount * req.totalCount

\* Create's request checks before the transaction opens
CreateValid(req) ==
    /\ req.featureEnabled
    /\ req.totalCount >= 1
    /\ req.totalAmount > 0
    /\ req.exponent >= -2
    /\ (req.type = Fixed => ~PerAmountTooSmall(req))
    /\ req.payKeyOk

\* calculateRandomAmount of a split that draws from the whole of what the
\* others can spare, without the bound of twice the average
calculateRandomAmountUpToPossible(remaining, count) ==
    LET maxPossible == remaining - MinAmount * (count - 1)
    IN  IF count = 1 THEN {remaining}
        ELSE IF remaining < MinAmount * count THEN {DivRound2(remaining, count)}
        ELSE IF maxPossible <= MinAmount THEN {MinAmount}
        ELSE {MinAmount + randCents : randCents \in 0..(maxPossible - MinAmount)}

\* calculateRandomAmount of a split whose fallback hands out the minimum
calculateRandomAmountMinFallback(remaining, count) ==
    LET maxAmountN  == 2 * remaining
        maxPossible == remaining - MinAmount * (count - 1)
        cappedN     == IF maxAmountN > maxPossible * count
                       THEN maxPossible * count ELSE maxAmountN
        diffCents   == (cappedN - MinAmount * count) \div count
    IN  IF count = 1 THEN {remaining}
        ELSE IF remaining < MinAmount * count THEN {MinAmount}
        ELSE IF diffCents <= 0 THEN {MinAmount}
        ELSE {MinAmount + randCents : randCents \in 0..diffCents}

\* calculateRandomAmount of a split that leaves nothing aside for the others
calculateRandomAmountUncapped(remaining, count) ==
    LET diffCents == (2 * remaining - MinAmount * count) \div count
    IN  IF count = 1 THEN {remaining}
        ELSE IF remaining < MinAmount * count THEN {DivRound2(remaining, count)}
        ELSE IF diffCents <= 0 THEN {MinAmount}
        ELSE {MinAmount + randCents : randCents \in 0..diffCents}

\* calculateRandomAmount: the set of values rand.Int63n lets it return.
\* Quotients by count are carried as numerators over the denominator count.
calculateRandomAmount(remaining, count) ==
    LET minRequired  == MinAmount * count
        maxAmountN   == 2 * remaining                       \* avg.Mul(2)
        maxPossible  == remaining - MinAmount * (count - 1)
        cappedN      == IF maxAmountN > maxPossible * count
                        THEN maxPossible * count ELSE maxAmountN
        flooredN     == IF cappedN < MinAmount * count
                        THEN MinAmount * count ELSE cappedN
        diffN        == flooredN - MinAmount * count
        diffCents    == diffN \div count                    \* diff.Mul(100).IntPart()
    IN  IF count = 1 THEN {remaining}
        ELSE IF remaining < minRequired THEN {DivRound2(remaining, count)}
        ELSE IF diffN <= 0 THEN {MinAmount}
        ELSE IF diffCents <= 0 THEN {MinAmount}
        ELSE {MinAmount + randCents : randCents \in 0..diffCents}

\* FixedAmount without the last-share case
FixedAmountEveryShareRounded(env) ==
    DivRound2(env.totalAmount, env.totalCount)

\* the share of a Fixed envelope
FixedAmount(env) ==
    IF env.remainingCount = 1 THEN env.remainingAmount
    ELSE DivRound2(env.totalAmount, env.totalCount)

\* the values claimedAmount can take for the locked envelope row
ClaimedAmounts(env) ==
    IF env.type = Fixed THEN {FixedAmount(env)}
    ELSE calculateRandomAmount(env.remainingAmount, env.remainingCount)

----------------------------------------------------------------------------
\* Locks

\* the row of user u is locked by a Create transaction
UserLocked(u) == createTx[u].active

\* EnvLocked of a Claim that reads the envelope without locking it
EnvLockedNever(e) == FALSE

\* the row of envelope e is locked by a Claim transaction
EnvLocked(e) == \E t \in claimTx : t.env = e

\* ExistingClaim of a Claim that skips the pre-check
ExistingClaimSkipped(e, u) == FALSE

\* ExistingClaim of a Claim that also turns the creator away
ExistingClaimOrOwn(e, u) ==
    \/ \E r \in BagToSet(claims) : r.env = e /\ r.user = u
    \/ envelopes[e].creator = u

\* the (envelope, user) pre-check of Claim: a row exists
ExistingClaim(e, u) ==
    \E r \in BagToSet(claims) : r.env = e /\ r.user = u

----------------------------------------------------------------------------
\* Create

\* the HTTP status the handler answers with: Claim's error switch and
\* Create's error branch send every error they do not name, the failed
\* NOWAIT lock included, as 500 with the text of the error
HttpStatus(r) ==
    IF r.result = "ok" THEN 200
    ELSE IF r.result = "disabled" THEN 403
    ELSE IF r.result = "not_found" THEN 404
    ELSE IF r.result \in {"bad_request", "invalid_amount", "decimal_places_exceeded",
                          "amount_too_small", "pay_key_incorrect", "insufficient_balance",
                          "expired", "finished", "already_claimed"} THEN 400
    ELSE 500

\* InsufficientBalance of a Create that does not check the balance
InsufficientBalanceUnchecked(u, req) == FALSE

\* user.AvailableBalance.LessThan(req.TotalAmount) on the locked row
InsufficientBalance(u, req) == balance[u] < req.totalAmount

\* the reason Create answers a request with an error without committing, in
\* the order of its checks; "none" when the transaction goes on
CreateRejection(u, req) ==
    IF ~req.featureEnabled THEN "disabled"
    ELSE IF req.totalCount < 1 THEN "bad_request"
    ELSE IF req.totalAmount <= 0 THEN "invalid_amount"
    ELSE IF req.exponent < -2 THEN "decimal_places_exceeded"
    ELSE IF req.type = Fixed /\ PerAmountTooSmall(req) THEN "amount_too_small"
    ELSE IF ~req.payKeyOk THEN "pay_key_incorrect"
    ELSE IF UserLocked(u) THEN "lock_error"
    ELSE IF InsufficientBalance(u, req) THEN "insufficient_balance"
    ELSE "none"

\* Create answers with an error: a failed check, the NOWAIT lock not
\* obtained, or the balance too low (the transaction rolls back at once)
CreateReject(u, req) ==
    /\ CreateRejection(u, req) # "none"
    /\ resp' = [op |-> "create", user |-> u, req |-> req,
                result |-> CreateRejection(u, req)]
    /\ UNCHANGED <<now, balance, envelopes, claims, orders, createTx, claimTx, sweep>>

\* the response of a Create that commits
CreateOk(u) ==
    [op |-> "create", user |-> u, req |-> createTx[u].req, result |-> "ok",
     id |-> Len(envelopes) + 1]

\* the response of a Create whose transaction fails
CreateFailed(u) ==
    [op |-> "create", user |-> u, req |-> createTx[u].req, result |-> "error"]

\* SELECT ... FOR UPDATE NOWAIT on the user row, then the balance check
CreateBegin(u, req) ==
    /\ Len(envelopes) + Cardinality({v \in Users : createTx[v].active}) < MaxEnvelopes
    /\ CreateValid(req)
    /\ ~UserLocked(u)
    /\ ~InsufficientBalance(u, req)
    /\ createTx' = [createTx EXCEPT ![u] = [active |-> TRUE, req |-> req]]
    /\ UNCHANGED <<now, balance, envelopes, claims, orders, claimTx, sweep>>

\* NewEnvelope of a Create that gives the envelope no lifetime
NewEnvelopeExpiresNow(u, req) ==
    [ creator |-> u, type |-> req.type,
      totalAmount |-> req.totalAmount, remainingAmount |-> req.totalAmount,
      totalCount |-> req.totalCount, remainingCount |-> req.totalCount,
      status |-> Active, expiresAt |-> now ]

\* the row Create inserts
NewEnvelope(u, req) ==
    [ creator         |-> u,
      type            |-> req.type,
      totalAmount     |-> req.totalAmount,
      remainingAmount |-> req.totalAmount,
      totalCount      |-> req.totalCount,
      remainingCount  |-> req.totalCount,
      status          |-> Active,
      expiresAt       |-> now + TTL ]

\* debit, insert the envelope, insert the order, commit
CreateCommit(u) ==
    /\ createTx[u].active
    /\ LET req == createTx[u].req IN
        /\ balance' = [balance EXCEPT ![u] = @ - req.totalAmount]
        /\ envelopes' = Append(envelopes, NewEnvelope(u, req))
        /\ orders' = orders (+) SetToBag({[type |-> "red_envelope_send", payer |-> u,
                                           payee |-> u, amount |-> req.totalAmount,
                                           remark |-> req.totalCount]})
    /\ createTx' = [createTx EXCEPT ![u] = NoTx]
    /\ UNCHANGED <<now, claims, claimTx, sweep>>

\* a statement of the transaction fails, or the request is cancelled: rollback
CreateAbort(u) ==
    /\ createTx[u].active
    /\ createTx' = [createTx EXCEPT ![u] = NoTx]
    /\ UNCHANGED <<now, balance, envelopes, claims, orders, claimTx, sweep>>

----------------------------------------------------------------------------
\* Claim

\* ClaimExpired of a Claim that looks at the status only
ClaimExpiredByStatus(env) == env.status = Expired

\* the expiry check of Claim on the locked row
ClaimExpired(env) == env.status = Expired \/ env.expiresAt < now

\* ClaimFinished of a Claim that goes on after the last share
ClaimFinishedNever(env) == FALSE

\* the finished check of Claim on the locked row
ClaimFinished(env) == env.status = Finished \/ env.remainingCount <= 0

\* ClaimUpdate of a Claim that leaves the status alone
ClaimUpdateKeepsStatus(row, amount) ==
    [row EXCEPT !.remainingCount = row.remainingCount - 1,
                !.remainingAmount = row.remainingAmount - amount]

\* the envelope row after the Updates of Claim, from the row read under the lock
ClaimUpdate(row, amount) ==
    LET newRemainingCount == row.remainingCount - 1
    IN  [row EXCEPT !.remainingCount = newRemainingCount,
                    !.remainingAmount = row.remainingAmount - amount,
                    !.status = IF newRemainingCount <= 0 THEN Finished ELSE row.status]

\* ClaimRejection of a Claim that looks up the caller's claim row first
ClaimRejectionAlreadyFirst(u, code, enabled) ==
    IF ~enabled THEN "disabled"
    ELSE IF code \notin EnvIds THEN "not_found"
    ELSE IF EnvLocked(code) THEN "lock_error"
    ELSE IF ExistingClaim(code, u) THEN "already_claimed"
    ELSE IF ClaimExpired(envelopes[code]) THEN "expired"
    ELSE IF ClaimFinished(envelopes[code]) THEN "finished"
    ELSE "none"

\* ClaimRejection of a Claim that waits for the envelope row
ClaimRejectionWaits(u, code, enabled) ==
    IF ~enabled THEN "disabled"
    ELSE IF code \notin EnvIds THEN "not_found"
    ELSE IF EnvLocked(code) THEN "none"
    ELSE IF ClaimExpired(envelopes[code]) THEN "expired"
    ELSE IF ClaimFinished(envelopes[code]) THEN "finished"
    ELSE IF ExistingClaim(code, u) THEN "already_claimed"
    ELSE "none"

\* the reason Claim answers with an error before it writes, in the order of
\* its checks; "none" when the transaction goes on
ClaimRejection(u, code, enabled) ==
    IF ~enabled THEN "disabled"
    ELSE IF code \notin EnvIds THEN "not_found"
    ELSE IF EnvLocked(code) THEN "lock_error"
    ELSE IF ClaimExpired(envelopes[code]) THEN "expired"
    ELSE IF ClaimFinished(envelopes[code]) THEN "finished"
    ELSE IF ExistingClaim(code, u) THEN "already_claimed"
    ELSE "none"

\* Claim answers with an error and rolls back, having written nothing
ClaimReject(u, code, enabled) ==
    /\ ClaimRejection(u, code, enabled) # "none"
    /\ resp' = [op |-> "claim", user |-> u, code |-> code,
                result |-> ClaimRejection(u, code, enabled)]
    /\ UNCHANGED <<now, balance, envelopes, claims, orders, createTx, claimTx, sweep>>

\* ClaimOk of a Claim that answers with the envelope as it was read
ClaimOkStaleEnvelope(t) ==
    [op |-> "claim", user |-> t.user, code |-> t.env, result |-> "ok",
     amount |-> t.amount, envelope |-> t.row]

\* the response of a Claim that commits: the amount and the updated envelope
ClaimOk(t) ==
    [op |-> "claim", user |-> t.user, code |-> t.env, result |-> "ok",
     amount |-> t.amount, envelope |-> ClaimUpdate(t.row, t.amount)]

\* the response of a Claim whose transaction fails
ClaimFailed(t) ==
    [op |-> "claim", user |-> t.user, code |-> t.env, result |-> "error"]

\* lock the envelope row NOWAIT, run the checks, compute the share
ClaimBegin(u, e) ==
    /\ e \in EnvIds
    /\ ~EnvLocked(e)
    /\ LET env == envelopes[e] IN
        /\ ~ClaimExpired(env)
        /\ ~ClaimFinished(env)
        /\ ~ExistingClaim(e, u)
        /\ \E amount \in ClaimedAmounts(env) :
             claimTx' = claimTx \cup {[env |-> e, user |-> u, amount |-> amount,
                                       row |-> env]}
    /\ UNCHANGED <<now, balance, envelopes, claims, orders, createTx, sweep>>

\* ClaimCommit of a Claim that waits for the sweeper runs that selected its
\* envelope
ClaimCommitAfterSweeper(t) ==
    /\ t \in claimTx
    /\ ~UserLocked(t.user)
    /\ \A s \in Sweepers : \A item \in sweep[s] : item.id # t.env
    /\ claims' = claims (+) SetToBag({[env |-> t.env, user |-> t.user, amount |-> t.amount]})
    /\ envelopes' = [envelopes EXCEPT ![t.env] = ClaimUpdate(t.row, t.amount)]
    /\ balance' = [balance EXCEPT ![t.user] = @ + t.amount]
    /\ orders' = orders (+) SetToBag({[type |-> "red_envelope_receive",
                                       payer |-> t.row.creator, payee |-> t.user,
                                       amount |-> t.amount, remark |-> t.row.creator]})
    /\ claimTx' = claimTx \ {t}
    /\ UNCHANGED <<now, createTx, sweep>>

\* insert the claim row, update the envelope, credit the claimer, insert the
\* order, commit; the balance UPDATE waits while the claimer's row is locked
ClaimCommit(t) ==
    /\ t \in claimTx
    /\ ~UserLocked(t.user)
    /\ claims' = claims (+) SetToBag({[env |-> t.env, user |-> t.user, amount |-> t.amount]})
    /\ envelopes' = [envelopes EXCEPT ![t.env] = ClaimUpdate(t.row, t.amount)]
    /\ balance' = [balance EXCEPT ![t.user] = @ + t.amount]
    /\ orders' = orders (+) SetToBag({[type |-> "red_envelope_receive",
                                       payer |-> t.row.creator, payee |-> t.user,
                                       amount |-> t.amount, remark |-> t.row.creator]})
    /\ claimTx' = claimTx \ {t}
    /\ UNCHANGED <<now, createTx, sweep>>

\* ClaimAbort of a Claim whose claim row outlives the failure
ClaimAbortKeepsRow(t) ==
    /\ t \in claimTx
    /\ claims' = claims (+) SetToBag({[env |-> t.env, user |-> t.user, amount |-> t.amount]})
    /\ claimTx' = claimTx \ {t}
    /\ UNCHANGED <<now, balance, envelopes, orders, createTx, sweep>>

\* a statement of the transaction fails, or the request is cancelled: rollback
ClaimAbort(t) ==
    /\ t \in claimTx
    /\ claimTx' = claimTx \ {t}
    /\ UNCHANGED <<now, balance, envelopes, claims, orders, createTx, sweep>>

----------------------------------------------------------------------------
\* Sweeper

\* SweepSelects of a query that filters on the expiry time only
SweepSelectsPastExpiry(env) == env.expiresAt < now

\* WHERE status = active AND expires_at < now AND remaining_amount > 0
SweepSelects(env) ==
    /\ env.status = Active
    /\ env.expiresAt < now
    /\ env.remainingAmount > 0

\* the query of a sweeper run: the selected rows as read (committed values)
SweepQuery(s) ==
    /\ sweep[s] = {}
    /\ LET found == {e \in EnvIds : SweepSelects(envelopes[e])} IN
        /\ found # {}
        /\ sweep' = [sweep EXCEPT ![s] = {[id |-> e, row |-> envelopes[e]] : e \in found}]
    /\ UNCHANGED <<now, balance, envelopes, claims, orders, createTx, claimTx>>

\* SweepUpdate with WHERE id = ? alone
SweepUpdateAnyStatus(env) ==
    [env EXCEPT !.status = Expired, !.remainingAmount = 0, !.remainingCount = 0]

\* UPDATE ... WHERE id = ? AND status = active: the row it leaves
SweepUpdate(env) ==
    IF env.status = Active
    THEN [env EXCEPT !.status = Expired, !.remainingAmount = 0, !.remainingCount = 0]
    ELSE env

\* the amount credited to the creator: the RemainingAmount of the queried row
RefundAmount(item) == item.row.remainingAmount

\* SweepItem of a sweeper that credits the refund without a journal entry
SweepItemNoJournal(s, item) ==
    /\ item \in sweep[s]
    /\ ~EnvLocked(item.id)
    /\ ~UserLocked(item.row.creator)
    /\ envelopes' = [envelopes EXCEPT ![item.id] = SweepUpdate(@)]
    /\ balance' = [balance EXCEPT ![item.row.creator] = @ + RefundAmount(item)]
    /\ sweep' = [sweep EXCEPT ![s] = @ \ {item}]
    /\ UNCHANGED <<now, claims, orders, createTx, claimTx>>

\* the transaction for one envelope of the query result; its UPDATEs wait while
\* the envelope row or the creator's row is locked
SweepItem(s, item) ==
    /\ item \in sweep[s]
    /\ ~EnvLocked(item.id)
    /\ envelopes' = [envelopes EXCEPT ![item.id] = SweepUpdate(@)]
    /\ IF RefundAmount(item) > 0
       THEN /\ ~UserLocked(item.row.creator)
            /\ balance' = [balance EXCEPT ![item.row.creator] = @ + RefundAmount(item)]
            /\ orders' = orders (+) SetToBag({[type |-> "red_envelope_refund",
                                               payer |-> item.row.creator,
                                               payee |-> item.row.creator,
                                               amount |-> RefundAmount(item),
                                               remark |-> item.id]})
       ELSE UNCHANGED <<balance, orders>>
    /\ sweep' = [sweep EXCEPT ![s] = @ \ {item}]
    /\ UNCHANGED <<now, claims, createTx, claimTx>>

\* the line the sweeper logs when the transaction of an envelope returns nil
SweepDone(item) == [op |-> "sweep", id |-> item.id, result |-> "ok"]

\* the line the sweeper logs when the transaction of an envelope fails
SweepFailed(item) == [op |-> "sweep", id |-> item.id, result |-> "error"]

\* SweepItemFail of a sweeper whose update outlives the failure
SweepItemFailKeepsUpdate(s, item) ==
    /\ item \in sweep[s]
    /\ envelopes' = [envelopes EXCEPT ![item.id] = SweepUpdate(@)]
    /\ sweep' = [sweep EXCEPT ![s] = @ \ {item}]
    /\ UNCHANGED <<now, balance, claims, orders, createTx, claimTx>>

\* the transaction of one envelope fails: rolled back, logged, the loop goes on
SweepItemFail(s, item) ==
    /\ item \in sweep[s]
    /\ sweep' = [sweep EXCEPT ![s] = @ \ {item}]
    /\ UNCHANGED <<now, balance, envelopes, claims, orders, createTx, claimTx>>

----------------------------------------------------------------------------
\* List

\* the directions a ListRequest may carry; "" is a request without one
Directions == {"", "sent", "received"}

\* the rows the query of List yields for envelope e: the envelope itself when
\* the caller created it, or one row of the join per Claim row of the caller
ListJoinEveryClaim(u, direction, e) ==
    IF direction = "received"
    THEN CountRows(claims, LAMBDA c : c.env = e)
    ELSE IF envelopes[e].creator = u THEN 1 ELSE 0

ListJoin(u, direction, e) ==
    IF direction = "received"
    THEN CountRows(claims, LAMBDA c : c.env = e /\ c.user = u)
    ELSE IF envelopes[e].creator = u THEN 1 ELSE 0

\* the rows of the query over the envelopes 1..e, latest created first
RECURSIVE ListRows(_, _, _)
ListRows(u, direction, e) ==
    IF e = 0 THEN <<>>
    ELSE [i \in 1..ListJoin(u, direction, e) |-> e] \o ListRows(u, direction, e - 1)

\* Offset((page - 1) * pageSize).Limit(pageSize)
ListPage(rows, page, pageSize) ==
    LET first == (page - 1) * pageSize + 1
        last  == IF page * pageSize < Len(rows) THEN page * pageSize ELSE Len(rows)
    IN SubSeq(rows, first, last)

\* query.Count(&total): the first read of the handler
ListCount(u, direction, page, pageSize) ==
    /\ resp' = [op |-> "list", sent |-> FALSE, user |-> u, type |-> direction,
                page |-> page, pageSize |-> pageSize,
                total |-> Len(ListRows(u, direction, Len(envelopes))),
                redEnvelopes |-> <<>>]
    /\ UNCHANGED <<now, balance, envelopes, claims, orders, createTx, claimTx, sweep>>

\* query.Order(...).Offset(...).Limit(...).Find: the second read, and the answer
ListFind ==
    /\ resp.op = "list"
    /\ ~resp.sent
    /\ resp' = [resp EXCEPT !.sent = TRUE,
                            !.redEnvelopes = ListPage(ListRows(resp.user, resp.type, Len(envelopes)),
                                                      resp.page, resp.pageSize)]
    /\ UNCHANGED <<now, balance, envelopes, claims, orders, createTx, claimTx, sweep>>

----------------------------------------------------------------------------
\* Clock

Tick ==
    /\ now < MaxTime
    /\ now' = now + 1
    /\ UNCHANGED <<balance, envelopes, claims, orders, createTx, claimTx, sweep>>

----------------------------------------------------------------------------
\* Specifications

\* the balances the accounts start with
InitBalance(u) == IF u = 1 THEN 1000 ELSE 0

\* the balances of the many-claimers scenario
InitCrowdBalance(u) == IF u = 1 THEN 9 ELSE 0

InitStore ==
    /\ now = 0
    /\ envelopes = <<>>
    /\ claims = EmptyBag
    /\ orders = EmptyBag
    /\ claimTx = {}
    /\ sweep = [s \in {"sweep1"} |-> {}]
    /\ resp = NoResp

Init ==
    /\ InitStore
    /\ balance = [u \in 1..NumUsers |-> InitBalance(u)]
    /\ createTx = [u \in 1..NumUsers |-> NoTx]

InitCrowd ==
    /\ InitStore
    /\ balance = [u \in 1..CrowdUsers |-> InitCrowdBalance(u)]
    /\ createTx = [u \in 1..CrowdUsers |-> NoTx]

\* the balances of the scenario that observes the responses
InitApiBalance(u) == IF u = 1 THEN 3 ELSE 0

InitApi ==
    /\ InitStore
    /\ balance = [u \in 1..ApiUsers |-> InitApiBalance(u)]
    /\ createTx = [u \in 1..ApiUsers |-> NoTx]

\* the steps of the store; the responses are not observed
NextWith(requests) ==
    \/ \E u \in Users, req \in requests : CreateBegin(u, req) /\ UNCHANGED resp
    \/ \E u \in Users : CreateCommit(u) /\ UNCHANGED resp
    \/ \E u \in Users : CreateAbort(u) /\ UNCHANGED resp
    \/ \E u \in Users, e \in EnvIds : ClaimBegin(u, e) /\ UNCHANGED resp
    \/ \E t \in claimTx : ClaimCommit(t) /\ UNCHANGED resp
    \/ \E t \in claimTx : ClaimAbort(t) /\ UNCHANGED resp
    \/ \E s \in Sweepers : SweepQuery(s) /\ UNCHANGED resp
    \/ \E s \in Sweepers : \E item \in sweep[s] : SweepItem(s, item) /\ UNCHANGED resp
    \/ \E s \in Sweepers : \E item \in sweep[s] : SweepItemFail(s, item) /\ UNCHANGED resp
    \/ Tick /\ UNCHANGED resp

Next == NextWith(CreateRequests)

NextCrowd == NextWith(CrowdRequests)

\* the same steps with the response of each handler observed
NextApi ==
    \/ \E u \in Users, req \in ApiRequests : CreateBegin(u, req) /\ UNCHANGED resp
    \/ \E u \in Users, req \in ApiRequests : CreateReject(u, req)
    \/ \E u \in Users : CreateCommit(u) /\ resp' = CreateOk(u)
    \/ \E u \in Users : CreateAbort(u) /\ resp' = CreateFailed(u)
    \/ \E u \in Users, e \in EnvIds : ClaimBegin(u, e) /\ UNCHANGED resp
    \/ \E u \in Users, code \in Codes, enabled \in BOOLEAN : ClaimReject(u, code, enabled)
    \/ \E t \in claimTx : ClaimCommit(t) /\ resp' = ClaimOk(t)
    \/ \E t \in claimTx : ClaimAbort(t) /\ resp' = ClaimFailed(t)
    \/ \E s \in Sweepers : SweepQuery(s) /\ UNCHANGED resp
    \/ \E s \in Sweepers : \E item \in sweep[s] : SweepItem(s, item) /\ resp' = SweepDone(item)
    \/ \E s \in Sweepers : \E item \in sweep[s] : SweepItemFail(s, item) /\ resp' = SweepFailed(item)
    \/ Tick /\ UNCHANGED resp

\* clients, the sweeper and the clock in any interleaving
Spec == Init /\ [][Next]_vars

\* the same engine with many claimers on small envelopes
SpecCrowd == InitCrowd /\ [][NextCrowd]_vars

\* the scheduling the liveness of the sweeper rests on: the clock advances,
\* every transaction in flight ends, the scheduler keeps triggering sweep
\* runs, a run goes through its list, and an envelope's transaction does
\* not fail forever
Fairness ==
    /\ WF_vars(Tick /\ UNCHANGED resp)
    /\ WF_vars(\E u \in Users : (CreateCommit(u) \/ CreateAbort(u)) /\ UNCHANGED resp)
    /\ WF_vars(\E t \in claimTx : (ClaimCommit(t) \/ ClaimAbort(t)) /\ UNCHANGED resp)
    /\ WF_vars(\E s \in Sweepers : SweepQuery(s) /\ UNCHANGED resp)
    /\ SF_vars(\E s \in Sweepers : \E item \in sweep[s] : SweepItem(s, item) /\ UNCHANGED resp)

\* clients, the sweeper and the clock under that scheduling
SpecLive == Init /\ [][Next]_vars /\ Fairness

\* the same engine with the responses of Create and Claim observed
SpecApi == InitApi /\ [][NextApi]_vars

\* the envelopes of the scenario that lists them: user 1 sent the first and
\* the third, user 2 the second
ListSenders == <<1, 2, 1>>

ListRequests == <<Request(Fixed, 2, 2), Request(Fixed, 1, 1), Request(Fixed, 1, 1)>>

\* the store after the three Creates, every sender's balance spent
InitList ==
    /\ now = 0
    /\ balance = [u \in 1..ApiUsers |-> 0]
    /\ envelopes = [e \in 1..3 |-> NewEnvelope(ListSenders[e], ListRequests[e])]
    /\ claims = EmptyBag
    /\ orders = SetToBag({[type |-> "red_envelope_send", payer |-> 1, payee |-> 1,
                           amount |-> 2, remark |-> 2]})
                (+) SetToBag({[type |-> "red_envelope_send", payer |-> 2, payee |-> 2,
                               amount |-> 1, remark |-> 1]})
                (+) SetToBag({[type |-> "red_envelope_send", payer |-> 1, payee |-> 1,
                               amount |-> 1, remark |-> 1]})
    /\ createTx = [u \in 1..ApiUsers |-> NoTx]
    /\ claimTx = {}
    /\ sweep = [s \in {"sweep1"} |-> {}]
    /\ resp = NoResp

\* Claims on those envelopes, and List calls between them
NextList ==
    \/ \E u \in Users, e \in EnvIds : ClaimBegin(u, e) /\ UNCHANGED resp
    \/ \E t \in claimTx : ClaimCommit(t) /\ UNCHANGED resp
    \/ \E t \in claimTx : ClaimAbort(t) /\ UNCHANGED resp
    \/ \E u \in Users, direction \in Directions, page \in 1..MaxPage, pageSize \in 1..MaxPageSize :
            ListCount(u, direction, page, pageSize)
    \/ ListFind

\* the engine with its envelopes listed while they are claimed
SpecList == InitList /\ [][NextList]_vars

\* the store after user 1's Create of a Random envelope of the given pool
\* and number of shares
InitSplit ==
    /\ now = 0
    /\ balance = [u \in 1..SplitUsers |-> 0]
    /\ \E totalAmount \in 1..MaxPool, totalCount \in 1..SplitUsers :
          /\ envelopes = <<NewEnvelope(1, Request(Random, totalAmount, totalCount))>>
          /\ orders = SetToBag({[type |-> "red_envelope_send", payer |-> 1, payee |-> 1,
                                 amount |-> totalAmount, remark |-> totalCount]})
    /\ claims = EmptyBag
    /\ createTx = [u \in 1..SplitUsers |-> NoTx]
    /\ claimTx = {}
    /\ sweep = [s \in {"sweep1"} |-> {}]
    /\ resp = NoResp

\* the Claims that split the pool
NextSplit ==
    \/ \E u \in Users, e \in EnvIds : ClaimBegin(u, e) /\ UNCHANGED resp
    \/ \E t \in claimTx : ClaimCommit(t) /\ UNCHANGED resp
    \/ \E t \in claimTx : ClaimAbort(t) /\ UNCHANGED resp

\* calculateRandomAmount applied claim after claim to every pool
SpecSplit == InitSplit /\ [][NextSplit]_vars

\* the engine with two sweeper runs, as when two server instances handle the
\* scheduled task at the same time
InitSweeps ==
    /\ now = 0
    /\ balance = [u \in 1..NumUsers |-> InitBalance(u)]
    /\ envelopes = <<>>
    /\ claims = EmptyBag
    /\ orders = EmptyBag
    /\ createTx = [u \in 1..NumUsers |-> NoTx]
    /\ claimTx = {}
    /\ sweep = [s \in {"sweep1", "sweep2"} |-> {}]
    /\ resp = NoResp

\* clients, the clock and two sweeper runs in any interleaving
SpecSweeps == InitSweeps /\ [][Next]_vars

----------------------------------------------------------------------------
\* Properties

\* the claim rows of envelope e
ClaimsOf(e) == LET Sel(r) == r.env = e IN CountRows(claims, Sel)

\* the amount of the claim rows of envelope e
ClaimedOf(e) == LET Sel(r) == r.env = e IN SumAmounts(claims, Sel)

\* the amount of the refund orders of envelope e (the order's remark names it)
RefundedOf(e) ==
    LET Sel(r) == r.type = "red_envelope_refund" /\ r.remark = e
    IN  SumAmounts(orders, Sel)

\* all the money of the system: the balances and what the envelopes still hold
TotalMoney ==
    SumSet(Users, balance)
    + SumSet(EnvIds, [e \in EnvIds |-> envelopes[e].remainingAmount])

\* C1: the balances plus the remaining amounts of the envelopes always add up
\* to the sum of the balances the accounts started with.
C1_MoneyConserved ==
    TotalMoney = SumSet(Users, [u \in Users |-> InitBalance(u)])

\* C2: there is at most one claim row per (envelope, user), and each user has
\* been credited once per claim row: as many receive orders, for the same
\* amount, as claim rows, and a balance that is the start balance moved by
\* the user's orders.
C2_ClaimOnce ==
    /\ \A row \in BagToSet(claims) :
         /\ CopiesIn(row, claims) = 1
         /\ \A other \in BagToSet(claims) :
              (other.env = row.env /\ other.user = row.user) => other = row
    /\ \A u \in Users :
         LET Mine(r)     == r.user = u
             Received(r) == r.type = "red_envelope_receive" /\ r.payee = u
             received    == SumAmounts(orders, Received)
             Debit(r)    == r.type = "red_envelope_send" /\ r.payer = u
             Refund(r)   == r.type = "red_envelope_refund" /\ r.payee = u
         IN  /\ CountRows(orders, Received) = CountRows(claims, Mine)
             /\ received = SumAmounts(claims, Mine)
             /\ balance[u] = InitBalance(u) - SumAmounts(orders, Debit)
                             + received + SumAmounts(orders, Refund)

\* C2 witness: a user holds a claim on an envelope that is still open to
\* claims and unlocked, so that user's next attempt reaches the pre-check.
C2_Witness ==
    \E e \in EnvIds : \E u \in Users :
        /\ ExistingClaim(e, u)
        /\ ~EnvLocked(e)
        /\ ~ClaimExpired(envelopes[e])
        /\ ~ClaimFinished(envelopes[e])

\* C3: no account balance is ever negative.
C3_NoNegativeBalance == \A u \in Users : balance[u] >= 0

\* C4: every envelope has 0 <= remainingAmount <= totalAmount.
C4_RemainingWithinTotal ==
    \A e \in EnvIds :
        /\ 0 <= envelopes[e].remainingAmount
        /\ envelopes[e].remainingAmount <= envelopes[e].totalAmount

\* C5: the claim amounts of an envelope that has not been swept add up to
\* totalAmount - remainingAmount, and those of any envelope to at most
\* totalAmount.
C5_ClaimSum ==
    \A e \in EnvIds :
        /\ envelopes[e].status # Expired =>
             ClaimedOf(e) = envelopes[e].totalAmount - envelopes[e].remainingAmount
        /\ ClaimedOf(e) <= envelopes[e].totalAmount

\* C6: for a Finished or Expired envelope the amounts claimed from it plus the
\* amounts refunded for it equal its totalAmount.
C6_EnvelopeConserved ==
    \A e \in EnvIds :
        envelopes[e].status \in {Finished, Expired} =>
            ClaimedOf(e) + RefundedOf(e) = envelopes[e].totalAmount

\* C7: a share computed from remaining > 0 and count >= 1 is in 0 < share <=
\* remaining and leaves at least 0.01 for each of the other count - 1 claimers.
C7_ShareContract ==
    \A t \in claimTx :
        (t.row.remainingAmount > 0 /\ t.row.remainingCount >= 1) =>
            /\ 0 < t.amount
            /\ t.amount <= t.row.remainingAmount
            /\ t.row.remainingAmount - t.amount >= MinAmount * (t.row.remainingCount - 1)

\* C8: a share of a Random envelope with count >= 2 claims remaining is in
\* 0.01 <= share <= remaining - 0.01 * (count - 1).
C8_RandomShareRange ==
    \A t \in claimTx :
        (t.row.type = Random /\ t.row.remainingCount >= 2) =>
            /\ MinAmount <= t.amount
            /\ t.amount <= t.row.remainingAmount - MinAmount * (t.row.remainingCount - 1)

\* totalAmount / totalCount rounded half up to the cent
PerShare(env) == (2 * env.totalAmount + env.totalCount) \div (2 * env.totalCount)

\* C9: on a Fixed envelope a claim that is not the last receives
\* round(totalAmount / totalCount, 2) and the last one the remainingAmount it
\* found; 10.00 over 3 is claimed as 3.33, 3.33, 3.34 and ends Finished.
C9_FixedShares ==
    /\ \A t \in claimTx :
         envelopes[t.env].type = Fixed =>
            t.amount = IF envelopes[t.env].remainingCount = 1
                       THEN envelopes[t.env].remainingAmount
                       ELSE PerShare(envelopes[t.env])
    /\ \A e \in EnvIds :
         LET env       == envelopes[e]
             IsPer(r)  == r.env = e /\ r.amount = PerShare(env)
             IsLast(r) == r.env = e /\ r.amount = env.totalAmount
                                        - (env.totalCount - 1) * PerShare(env)
         IN  env.type = Fixed =>
               /\ env.status # Finished => CountRows(claims, IsPer) = ClaimsOf(e)
               /\ env.status = Finished =>
                    /\ ClaimsOf(e) = env.totalCount
                    /\ CountRows(claims, IsPer) >= env.totalCount - 1
                    /\ CountRows(claims, IsLast) >= 1
                    /\ ClaimedOf(e) = env.totalAmount
                    /\ env.remainingAmount = 0
               /\ (env.totalAmount = 1000 /\ env.totalCount = 3
                   /\ ClaimsOf(e) = 3) =>
                    /\ env.status = Finished
                    /\ LET A333(r) == r.env = e /\ r.amount = 333
                           A334(r) == r.env = e /\ r.amount = 334
                       IN  CountRows(claims, A333) = 2 /\ CountRows(claims, A334) = 1

\* C9 witness: the Fixed envelope of 10.00 over 3 has been claimed three times.
C9_Witness ==
    \E e \in EnvIds :
        /\ envelopes[e].type = Fixed
        /\ envelopes[e].totalAmount = 1000
        /\ envelopes[e].totalCount = 3
        /\ ClaimsOf(e) = 3

\* C10: a step changes an envelope's status only from Active: to Finished
\* together with the claim row that brings remainingCount to 0, or to Expired
\* by an item of a sweeper run; no envelope row is removed.
C10_Lifecycle ==
    [][ /\ Len(envelopes') >= Len(envelopes)
        /\ \A e \in EnvIds :
             envelopes'[e].status # envelopes[e].status =>
                /\ envelopes[e].status = Active
                /\ \/ /\ envelopes'[e].status = Finished
                      /\ envelopes'[e].remainingCount = 0
                      /\ LET Sel(r) == r.env = e
                         IN  CountRows(claims', Sel) = CountRows(claims, Sel) + 1
                      /\ sweep' = sweep
                   \/ /\ envelopes'[e].status = Expired
                      /\ \E s \in Sweepers : \E item \in sweep[s] :
                            item.id = e /\ sweep'[s] = sweep[s] \ {item}
                      /\ claims' = claims
      ]_vars

\* C10 witness: a sweeper run still holds an envelope of its query that a
\* claim has finished in the meantime.
C10_Witness ==
    \E s \in Sweepers : \E item \in sweep[s] :
        envelopes[item.id].status = Finished

\* C11: in every reachable state an envelope with remainingCount = 0 has the
\* status Finished or Expired, never Active.
C11_ZeroCountClosed ==
    \A e \in EnvIds :
        envelopes[e].remainingCount = 0 =>
            envelopes[e].status \in {Finished, Expired}

\* the last share of an envelope has been claimed
C11_Witness ==
    \E e \in EnvIds :
        /\ envelopes[e].remainingCount = 0
        /\ envelopes[e].status = Finished
        /\ ClaimsOf(e) = envelopes[e].totalCount

\* a handler answers a Claim in this step
ClaimAnswered == resp' # resp /\ resp'.op = "claim"

\* a step that changes neither the store nor a transaction in flight
NothingWritten == UNCHANGED <<balance, envelopes, claims, orders, createTx, claimTx, sweep>>

\* the rejections of Claim by the envelope's state, with Gone(env) as the
\* meaning of "expired": each is sent with nothing written and only in its
\* case, and a Claim goes past its checks only on an envelope that is
\* neither gone nor finished
ClaimRejectsWith(Gone(_)) ==
    /\ ClaimAnswered /\ resp'.result \in {"not_found", "expired", "finished"} =>
           NothingWritten
    /\ ClaimAnswered /\ resp'.result = "not_found" => resp'.code \notin EnvIds
    /\ ClaimAnswered /\ resp'.result \notin {"disabled", "not_found"} =>
           resp'.code \in EnvIds
    /\ ClaimAnswered /\ resp'.result = "expired" => Gone(envelopes[resp'.code])
    /\ ClaimAnswered /\ resp'.result = "finished" =>
           LET env == envelopes[resp'.code] IN
           ~Gone(env) /\ (env.status = Finished \/ env.remainingCount <= 0)
    /\ ClaimAnswered /\ resp'.result = "already_claimed" =>
           LET env == envelopes[resp'.code] IN
           ~Gone(env) /\ ~(env.status = Finished \/ env.remainingCount <= 0)
    /\ \A t \in claimTx' \ claimTx :
           LET env == envelopes[t.env] IN
           ~Gone(env) /\ ~(env.status = Finished \/ env.remainingCount <= 0)

\* C12 as stated: Claim is rejected with no state change, as 'not found' when
\* no envelope has the code, as 'expired' when status = Expired or
\* expiresAt <= now (the instant now = expiresAt included), as 'finished' when
\* status = Finished or remainingCount <= 0; no Claim succeeds on an envelope
\* whose expiresAt is not in the future.
C12_RejectsFromExpiresAt ==
    [][ LET Gone(env) == env.status = Expired \/ env.expiresAt <= now IN
        /\ ClaimRejectsWith(Gone)
        /\ \A e \in EnvIds : ClaimsOf(e)' > ClaimsOf(e) => envelopes[e].expiresAt > now
      ]_vars

\* C12, amended: a Claim that reaches its checks is rejected with no state
\* change, as 'not found' when no envelope has the code, as 'expired' when
\* status = Expired or expiresAt < now, as 'finished' when status = Finished
\* or remainingCount <= 0; at the instant now = expiresAt the expiry check
\* passes, and no Claim passes its checks once expiresAt < now.
C12_RejectsAfterExpiresAt ==
    [][ LET Gone(env) == env.status = Expired \/ env.expiresAt < now IN
        ClaimRejectsWith(Gone)
      ]_vars

\* the last answer is 'expired' for an envelope past its expiry that the
\* sweeper has not closed yet
C12_Witness ==
    /\ resp.op = "claim" /\ resp.result = "expired"
    /\ resp.code \in EnvIds
    /\ envelopes[resp.code].status = Active
    /\ envelopes[resp.code].remainingCount > 0
    /\ envelopes[resp.code].expiresAt < now

\* user u holds a claim row of envelope e
HasClaimRow(e, u) == \E r \in BagToSet(claims) : r.env = e /\ r.user = u

\* a handler answers, having reached its checks, a Claim of a user who
\* already holds a claim row of the envelope
HolderAnswered ==
    /\ ClaimAnswered
    /\ resp'.result \notin {"disabled", "lock_error"}
    /\ resp'.code \in EnvIds
    /\ HasClaimRow(resp'.code, resp'.user)

\* a claim row is only ever inserted for a (envelope, user) without one
NoSecondRow ==
    \A r \in BagToSet(claims') :
        CopiesIn(r, claims') > CopiesIn(r, claims) =>
            ~HasClaimRow(r.env, r.user) /\ CopiesIn(r, claims') = 1

\* C13 as stated: claim with the same (code, userId) succeeds once and yields
\* 'already claimed' on every later call, whatever happened to the envelope
\* in between (other claims finishing it, expiry), and never a second credit.
C13_AlwaysAlreadyClaimed ==
    [][ /\ HolderAnswered => resp'.result = "already_claimed" /\ NothingWritten
        /\ NoSecondRow
      ]_vars

\* C13, amended: claim with the same (code, userId) succeeds once; every later
\* call that reaches the checks is rejected with nothing written and never a
\* second credit, as 'expired' when the envelope is Expired or past expiresAt,
\* else as 'finished' when it is Finished or has no share left, else as
\* 'already claimed'.
C13_LaterCallsRejected ==
    [][ /\ HolderAnswered =>
            LET env == envelopes[resp'.code] IN
            /\ NothingWritten
            /\ resp'.result =
                 IF env.status = Expired \/ env.expiresAt < now THEN "expired"
                 ELSE IF env.status = Finished \/ env.remainingCount <= 0 THEN "finished"
                 ELSE "already_claimed"
        /\ NoSecondRow
      ]_vars

\* a user who claimed calls again after another user took the last share
C13_Witness ==
    /\ resp.op = "claim" /\ resp.result = "finished"
    /\ resp.code \in EnvIds
    /\ HasClaimRow(resp.code, resp.user)
    /\ \E v \in Users : v # resp.user /\ HasClaimRow(resp.code, v)

\* the four writes of the Claim transaction t, all made in this step
ClaimRecorded(t) ==
    /\ claims' = claims (+) SetToBag({[env |-> t.env, user |-> t.user, amount |-> t.amount]})
    /\ envelopes'[t.env].remainingCount = envelopes[t.env].remainingCount - 1
    /\ envelopes'[t.env].remainingAmount = envelopes[t.env].remainingAmount - t.amount
    /\ balance'[t.user] = balance[t.user] + t.amount
    /\ LET Sel(r) == r.type = "red_envelope_receive" /\ r.payee = t.user
       IN  /\ CountRows(orders', Sel) = CountRows(orders, Sel) + 1
           /\ SumAmounts(orders', Sel) = SumAmounts(orders, Sel) + t.amount

\* no claim row and no receive entry is written in this step
NoClaimWritten ==
    /\ claims' = claims
    /\ LET Sel(r) == r.type = "red_envelope_receive"
       IN  CountRows(orders', Sel) = CountRows(orders, Sel)

\* C14: Claim is atomic: when a step of it fails, or the request is cancelled
\* or times out, none of the claim row, the envelope update, the balance
\* credit and the journal entry is committed; a claim is never partially
\* recorded.
C14_ClaimAtomic ==
    [][ /\ \A t \in claimTx \ claimTx' :
               ClaimRecorded(t) \/ UNCHANGED <<balance, envelopes, claims, orders>>
        /\ claimTx \ claimTx' = {} => NoClaimWritten
      ]_vars

\* a Claim transaction has failed and left no trace
C14_Witness ==
    /\ resp.op = "claim" /\ resp.result = "error"
    /\ ~HasClaimRow(resp.code, resp.user)
    /\ envelopes[resp.code].remainingCount = envelopes[resp.code].totalCount
    /\ envelopes[resp.code].remainingAmount = envelopes[resp.code].totalAmount
    /\ orders = SetToBag({r \in BagToSet(orders) : r.type = "red_envelope_send"})

CreateAnswered == resp' # resp /\ resp'.op = "create"

\* the request fails one of the checks Create makes before its transaction
FailsCreateChecks(req) ==
    \/ ~req.featureEnabled
    \/ req.totalAmount <= 0
    \/ req.exponent < -2
    \/ req.type = Fixed /\ req.totalAmount < MinAmount * req.totalCount
    \/ ~req.payKeyOk

\* C16: Create is rejected before any transaction opens, with no balance,
\* envelope or journal change, whenever the feature is disabled, or
\* totalAmount <= 0, or totalAmount has more than 2 decimal places, or the
\* type is Fixed and totalAmount / totalCount < 0.01 (0.02 over 3 shares is
\* rejected as 'amount too small'), or the payment key is not verified.
C16_CreateRejectedEarly ==
    [][ /\ \A u \in Users :
               createTx'[u] # createTx[u] /\ createTx'[u].active =>
                   ~FailsCreateChecks(createTx'[u].req)
        /\ CreateAnswered /\ FailsCreateChecks(resp'.req) =>
               /\ NothingWritten
               /\ resp'.result \in {"disabled", "invalid_amount", "decimal_places_exceeded",
                                    "amount_too_small", "pay_key_incorrect"}
        /\ CreateAnswered /\ resp'.req = Request(Fixed, 2, 3) =>
               resp'.result = "amount_too_small"
        /\ CreateAnswered /\ resp'.result = "disabled" => ~resp'.req.featureEnabled
        /\ CreateAnswered /\ resp'.result = "invalid_amount" => resp'.req.totalAmount <= 0
        /\ CreateAnswered /\ resp'.result = "decimal_places_exceeded" => resp'.req.exponent < -2
        /\ CreateAnswered /\ resp'.result = "amount_too_small" =>
               resp'.req.type = Fixed /\ resp'.req.totalAmount < MinAmount * resp'.req.totalCount
        /\ CreateAnswered /\ resp'.result = "pay_key_incorrect" => ~resp'.req.payKeyOk
      ]_vars

\* 0.02 over 3 Fixed shares has been rejected as 'amount too small' with the
\* creator able to pay it and nothing debited
C16_Witness ==
    /\ resp.op = "create" /\ resp.result = "amount_too_small"
    /\ resp.req = Request(Fixed, 2, 3)
    /\ balance[resp.user] >= resp.req.totalAmount
    /\ balance[resp.user] = InitApiBalance(resp.user)
    /\ envelopes = <<>> /\ orders = EmptyBag
    /\ ~createTx[resp.user].active

\* C17: Create commits only if the creator's locked availableBalance >=
\* totalAmount (equality allowed); when the balance is insufficient or a step
\* of the transaction fails, the whole transaction aborts: the balance is not
\* debited, no envelope exists and no journal entry is written.
C17_CreateNeedsBalance ==
    [][ /\ Len(envelopes') > Len(envelopes) =>
               LET env == envelopes'[Len(envelopes')]
               IN  balance[env.creator] >= env.totalAmount
        /\ CreateAnswered /\ resp'.result = "ok" =>
               balance[resp'.user] >= resp'.req.totalAmount
        /\ CreateAnswered /\ resp'.result \in {"insufficient_balance", "error"} =>
               UNCHANGED <<balance, envelopes, claims, orders>>
        /\ CreateAnswered /\ resp'.result = "insufficient_balance" =>
               balance[resp'.user] < resp'.req.totalAmount
        /\ CreateAnswered /\ ~FailsCreateChecks(resp'.req)
             /\ ~createTx[resp'.user].active
             /\ balance[resp'.user] < resp'.req.totalAmount =>
               resp'.result = "insufficient_balance"
        /\ \A u \in Users :
               createTx[u].active /\ ~createTx'[u].active
                 /\ Len(envelopes') = Len(envelopes) =>
                   UNCHANGED <<balance, envelopes, claims, orders>>
      ]_vars

\* a Create has committed with the whole balance of its creator
C17_Witness ==
    /\ resp.op = "create" /\ resp.result = "ok"
    /\ resp.req.totalAmount = InitApiBalance(resp.user)
    /\ balance[resp.user] = 0
    /\ Len(envelopes) = 1 /\ envelopes[1].creator = resp.user

C19_ClaimsSerialized ==
    /\ \A t1, t2 \in claimTx : t1.env = t2.env => t1 = t2
    /\ \A t \in claimTx : t.row = envelopes[t.env]
    /\ \A e \in EnvIds :
           envelopes[e].status # Expired =>
               /\ envelopes[e].remainingCount = envelopes[e].totalCount - ClaimsOf(e)
               /\ envelopes[e].remainingAmount = envelopes[e].totalAmount - ClaimedOf(e)

\* a Claim holds the row lock of an envelope that an earlier Claim has
\* already changed, while another user has not claimed yet
C19_Witness ==
    \E t \in claimTx :
        /\ ClaimsOf(t.env) >= 1
        /\ t.row.remainingCount = t.row.totalCount - ClaimsOf(t.env)
        /\ t.row.remainingCount >= 2
        /\ \E u \in Users : u # t.user /\ ~HasClaimRow(t.env, u)

\* the Claim transaction of (code, user) that holds the row lock
OwnClaimInFlight(code, u) == \E t \in claimTx : t.env = code /\ t.user = u

\* a handler answers, with the feature enabled, a Claim of a user who has
\* committed a claim of the envelope, the row lock being free
RetryAnswered ==
    /\ ClaimAnswered
    /\ resp'.result # "disabled"
    /\ resp'.code \in EnvIds
    /\ HasClaimRow(resp'.code, resp'.user)
    /\ \A t \in claimTx : t.env # resp'.code

\* of the attempts of one (code, user): the one made while the other holds
\* the row lock is told 'busy' and writes nothing, and at most one commits
OneAttemptWins ==
    /\ ClaimAnswered /\ resp'.result # "disabled" /\ resp'.code \in EnvIds
         /\ OwnClaimInFlight(resp'.code, resp'.user) /\ claimTx' = claimTx =>
           resp'.result = "lock_error" /\ NothingWritten
    /\ \A t \in claimTx' : ~HasClaimRow(t.env, t.user)
    /\ NoSecondRow

\* C20 as stated: of two concurrent claim attempts on the same (code, userId)
\* exactly one succeeds and the other reports 'already claimed' or 'busy',
\* and retrying the one that reported 'busy' yields 'already claimed'.
C20_RetryAlreadyClaimed ==
    [][ /\ OneAttemptWins
        /\ RetryAnswered => resp'.result = "already_claimed"
      ]_vars

\* C20, amended: of two concurrent claim attempts on the same (code, userId)
\* exactly one succeeds and the other reports 'busy' while the first holds
\* the row lock; retrying it after the first committed yields 'already
\* claimed' while the envelope is still claimable, 'finished' when that claim
\* took the last share, and 'expired' when the envelope is past expiresAt.
C20_RetryRejected ==
    [][ /\ OneAttemptWins
        /\ RetryAnswered =>
            LET env == envelopes[resp'.code] IN
            /\ NothingWritten
            /\ resp'.result =
                 IF env.status = Expired \/ env.expiresAt < now THEN "expired"
                 ELSE IF env.status = Finished \/ env.remainingCount <= 0 THEN "finished"
                 ELSE "already_claimed"
      ]_vars

\* the second of two concurrent attempts of one user has been told 'busy'
\* while the first holds the row lock of the envelope's last share
C20_Witness ==
    /\ resp.op = "claim" /\ resp.result = "lock_error"
    /\ OwnClaimInFlight(resp.code, resp.user)
    /\ envelopes[resp.code].remainingCount = 1

\* C21: the first lock of a transaction is taken without waiting: a Create
\* whose creator balance row, or a Claim whose envelope row, is locked by a
\* concurrent transaction fails at once instead of waiting, and commits no
\* change.
C21_FirstLockNoWait ==
    /\ [](\A u \in Users, req \in ApiRequests :
            createTx[u].active /\ ~FailsCreateChecks(req) =>
                /\ ~ENABLED CreateBegin(u, req)
                /\ ENABLED (CreateReject(u, req) /\ resp'.result = "lock_error"))
    /\ [](\A u \in Users, e \in EnvIds :
            (\E t \in claimTx : t.env = e) =>
                /\ ~ENABLED ClaimBegin(u, e)
                /\ ENABLED (ClaimReject(u, e, TRUE) /\ resp'.result = "lock_error"))
    /\ [][ /\ CreateAnswered /\ resp'.result = "lock_error" =>
                createTx[resp'.user].active /\ NothingWritten
           /\ ClaimAnswered /\ resp'.result = "lock_error" =>
                (\E t \in claimTx : t.env = resp'.code) /\ NothingWritten
         ]_vars

\* a Claim has met the envelope row locked by another user's Claim and has
\* left the envelope as it was
C21_Witness ==
    /\ resp.op = "claim" /\ resp.result = "lock_error"
    /\ \E t \in claimTx : t.env = resp.code /\ t.user # resp.user
    /\ envelopes[resp.code].remainingCount = envelopes[resp.code].totalCount
    /\ envelopes[resp.code].remainingAmount = envelopes[resp.code].totalAmount

\* C22: every mutation path (Create, Claim, each Sweeper item) takes every
\* row it writes without waiting: no transaction is ever blocked by a row
\* lock another transaction holds, neither a Claim crediting a claimer whose
\* balance row is locked by that claimer's Create nor a Sweeper update of an
\* envelope locked by a Claim.
C22_NoLockWait ==
    /\ \A t \in claimTx : ENABLED ClaimCommit(t)
    /\ \A s \in Sweepers : \A item \in sweep[s] : ENABLED SweepItem(s, item)

\* C23: a Create or Claim that fails because its row lock could not be taken
\* is reported as a retryable contention condition, distinct from every
\* business-rule failure and from the generic infrastructure failure.
C23_ContentionDistinct ==
    resp.op \in {"create", "claim"} /\ resp.result = "lock_error" =>
        /\ HttpStatus(resp) # HttpStatus([resp EXCEPT !.result = "error"])
        /\ HttpStatus(resp) \notin {400, 403, 404}

\* the refund entries of envelope e
RefundsOf(e) ==
    LET Sel(r) == r.type = "red_envelope_refund" /\ r.remark = e IN CountRows(orders, Sel)

\* C24: for each envelope the Sweeper expires, the amount credited to the
\* creator and written in the refund entry is the envelope's remainingAmount
\* just before the Sweeper's update sets it to 0, also when a Claim on the
\* envelope commits between the Sweeper's query and its update.
C24_RefundIsRemaining ==
    [][ \A e \in EnvIds :
          envelopes[e].status = Active /\ envelopes'[e].status = Expired =>
              /\ RefundedOf(e)' = RefundedOf(e) + envelopes[e].remainingAmount
              /\ balance'[envelopes[e].creator] =
                     balance[envelopes[e].creator] + envelopes[e].remainingAmount
      ]_vars

\* C25: when an envelope of the Sweeper's query is no longer Active as its
\* transaction runs (a last-second Claim finished it, or another sweep
\* expired it), the Sweeper changes nothing for it: no status change, no
\* credit to the creator, no refund entry.
C25_NotActiveUntouched ==
    [][ \A s \in Sweepers : \A item \in sweep[s] \ sweep'[s] :
          envelopes[item.id].status # Active =>
              UNCHANGED <<balance, envelopes, claims, orders>>
      ]_vars

\* C26: every Active envelope whose expiresAt has passed is eventually set
\* to Expired by the Sweeper, its unclaimed remainingAmount refunded, as
\* long as sweep runs keep being triggered and do not fail forever: no
\* envelope stays Active forever after its expiry.
C26_EventuallyExpired ==
    \A e \in 1..MaxEnvelopes :
        (e \in EnvIds /\ envelopes[e].status = Active /\ envelopes[e].expiresAt < now)
            ~> (e \in EnvIds /\ envelopes[e].status # Active)

C28_ResweepNoOp ==
    [][ /\ \A s \in Sweepers : \A item \in sweep'[s] \ sweep[s] :
               envelopes[item.id].status # Expired
        /\ \A e \in EnvIds :
               /\ envelopes[e].status = Expired
               /\ \A s \in Sweepers : \A item \in sweep[s] : item.id # e
               => /\ envelopes'[e] = envelopes[e]
                  /\ RefundsOf(e)' = RefundsOf(e)
                  /\ RefundedOf(e)' = RefundedOf(e)
      ]_vars

\* an envelope has been expired and refunded once, and the run is over
C28_Witness ==
    \E e \in EnvIds :
        /\ envelopes[e].status = Expired
        /\ envelopes[e].expiresAt < now
        /\ RefundsOf(e) = 1 /\ RefundedOf(e) > 0
        /\ \A s \in Sweepers : sweep[s] = {}

\* the journal entry appended in this step, if r is one
Appended(r) == CopiesIn(r, orders') = CopiesIn(r, orders) + 1

\* C29: exactly one journal entry is appended per money movement and every
\* balance change has one: a send entry of totalAmount per committed Create,
\* a receive entry of the share per committed Claim, a refund entry of the
\* refunded amount per refund the Sweeper credits; entries are never
\* modified or removed.
C29_JournalPerMovement ==
    [][ /\ \A r \in BagToSet(orders) : CopiesIn(r, orders') >= CopiesIn(r, orders)
        /\ BagCardinality(orders') <= BagCardinality(orders) + 1
        /\ balance' # balance => BagCardinality(orders') = BagCardinality(orders) + 1
        /\ Len(envelopes') > Len(envelopes) =>
               \E r \in BagToSet(orders') : Appended(r) /\ r.type = "red_envelope_send"
        /\ claims' # claims =>
               \E r \in BagToSet(orders') : Appended(r) /\ r.type = "red_envelope_receive"
        /\ \A r \in BagToSet(orders') : Appended(r) =>
               \/ /\ r.type = "red_envelope_send"
                  /\ Len(envelopes') = Len(envelopes) + 1
                  /\ r.amount = envelopes'[Len(envelopes')].totalAmount
                  /\ r.payer = envelopes'[Len(envelopes')].creator
                  /\ balance' = [balance EXCEPT ![r.payer] = @ - r.amount]
               \/ /\ r.type = "red_envelope_receive"
                  /\ \E c \in BagToSet(claims') :
                         /\ CopiesIn(c, claims') = CopiesIn(c, claims) + 1
                         /\ c.user = r.payee /\ c.amount = r.amount
                         /\ envelopes[c.env].creator = r.payer
                  /\ BagCardinality(claims') = BagCardinality(claims) + 1
                  /\ balance' = [balance EXCEPT ![r.payee] = @ + r.amount]
               \/ /\ r.type = "red_envelope_refund"
                  /\ r.payee = envelopes[r.remark].creator
                  /\ \E s \in Sweepers : \E item \in sweep[s] \ sweep'[s] : item.id = r.remark
                  /\ claims' = claims /\ Len(envelopes') = Len(envelopes)
                  /\ balance' = [balance EXCEPT ![r.payee] = @ + r.amount]
      ]_vars

\* a send, a receive and a refund entry have been written for one envelope
C29_Witness ==
    \E e \in EnvIds :
        /\ \E r \in BagToSet(orders) :
               r.type = "red_envelope_send" /\ r.amount = envelopes[e].totalAmount
        /\ \E r \in BagToSet(orders) :
               r.type = "red_envelope_receive" /\ r.amount > 0 /\ HasClaimRow(e, r.payee)
        /\ \E r \in BagToSet(orders) :
               r.type = "red_envelope_refund" /\ r.remark = e /\ r.amount > 0

\* the answers a Claim of user u on envelope e can get when it is made now
ClaimAnswers(u, e) ==
    { x \in {"not_found", "lock_error", "expired", "finished", "already_claimed"} :
        ENABLED (ClaimReject(u, e, TRUE) /\ resp'.result = x) }

\* the shares a Claim of user u on envelope e can begin with when made now
ClaimShares(u, e) ==
    { a \in -1..envelopes[e].totalAmount :
        ENABLED (ClaimBegin(u, e) /\ \E t \in claimTx' : t.user = u /\ t.amount = a) }

\* C30: the creator of an envelope can claim a share of it under the same
\* conditions and with the same effects as any other user; no code path
\* rejects a Claim because the claimer is the creator.
C30_CreatorClaimsLikeOthers ==
    /\ [](\A e \in EnvIds : \A u \in Users :
            LET c == envelopes[e].creator IN
            (HasClaimRow(e, u) <=> HasClaimRow(e, c)) =>
                /\ ClaimAnswers(c, e) = ClaimAnswers(u, e)
                /\ ClaimShares(c, e) = ClaimShares(u, e))
    /\ [](\A e \in EnvIds :
            LET c == envelopes[e].creator
                env == envelopes[e] IN
            /\ \A t \in claimTx : t.env # e
            /\ ~(env.status = Expired \/ env.expiresAt < now)
            /\ ~(env.status = Finished \/ env.remainingCount <= 0)
            /\ ~HasClaimRow(e, c)
            => ClaimShares(c, e) # {} /\ ClaimAnswers(c, e) = {})
    /\ [][ \A c \in BagToSet(claims') :
             CopiesIn(c, claims') > CopiesIn(c, claims) /\ c.user = envelopes[c.env].creator =>
                 /\ balance' = [balance EXCEPT ![c.user] = @ + c.amount]
                 /\ envelopes'[c.env].remainingCount = envelopes[c.env].remainingCount - 1
                 /\ envelopes'[c.env].remainingAmount = envelopes[c.env].remainingAmount - c.amount
         ]_vars

\* the creator holds a share of the own envelope, and another user one too
C30_Witness ==
    \E e \in EnvIds :
        /\ HasClaimRow(e, envelopes[e].creator)
        /\ \E u \in Users : u # envelopes[e].creator /\ HasClaimRow(e, u)
        /\ resp.op = "claim" /\ resp.result = "ok" /\ resp.user = envelopes[e].creator
        /\ resp.amount > 0

\* the envelopes a List of user u in the given direction is about
ListMatching(u, direction) ==
    IF direction = "received"
    THEN {e \in EnvIds : HasClaimRow(e, u)}
    ELSE {e \in EnvIds : envelopes[e].creator = u}

\* the elements of a set of envelope ids, latest created first
RECURSIVE LatestFirst(_)
LatestFirst(S) ==
    IF S = {} THEN <<>>
    ELSE LET m == CHOOSE x \in S : \A y \in S : y <= x
         IN  <<m>> \o LatestFirst(S \ {m})

\* C31: List returns, for direction 'sent' and for no direction, the
\* envelopes the caller created and, for 'received', the envelopes the caller
\* holds a Claim on: each envelope once, latest created first, the page asked
\* for cut out of that list, total the number of those envelopes as the count
\* query read them; neither read of List writes anything.
C31_ListAnswer ==
    [][ /\ resp' # resp /\ resp'.op = "list" => NothingWritten
        /\ resp' # resp /\ resp'.op = "list" /\ ~resp'.sent =>
              /\ resp'.total = Cardinality(ListMatching(resp'.user, resp'.type))
              /\ resp'.redEnvelopes = <<>>
        /\ resp' # resp /\ resp'.op = "list" /\ resp'.sent =>
              /\ resp.op = "list" /\ ~resp.sent
              /\ resp'.total = resp.total
              /\ resp'.redEnvelopes =
                     ListPage(LatestFirst(ListMatching(resp.user, resp.type)),
                              resp.page, resp.pageSize)
              /\ \A i, j \in 1..Len(resp'.redEnvelopes) :
                     /\ i # j => resp'.redEnvelopes[i] # resp'.redEnvelopes[j]
                     /\ i < j => resp'.redEnvelopes[i] > resp'.redEnvelopes[j]
    ]_vars

\* a user who claimed two envelopes, one of them claimed by someone else too,
\* is sent the second page of size one of the envelopes received
C31_Witness ==
    /\ resp.op = "list" /\ resp.sent
    /\ resp.type = "received" /\ resp.page = 2 /\ resp.pageSize = 1
    /\ resp.total = 2
    /\ resp.redEnvelopes = <<1>>
    /\ ClaimsOf(1) = 2

\* C32: for both envelope types the Claim that finds remainingCount == 1 is
\* given exactly the remainingAmount it found, so every Finished envelope has
\* remainingCount == 0 and remainingAmount == 0.
C32_LastTakesRemainder ==
    /\ \A t \in claimTx :
         t.row.remainingCount = 1 => t.amount = t.row.remainingAmount
    /\ \A e \in EnvIds :
         envelopes[e].status = Finished =>
            /\ envelopes[e].remainingCount = 0
            /\ envelopes[e].remainingAmount = 0
            /\ ClaimedOf(e) = envelopes[e].totalAmount

\* a Random envelope of two shares has been claimed twice and is Finished
C32_Witness ==
    \E e \in EnvIds :
        /\ envelopes[e].type = Random
        /\ envelopes[e].totalCount = 2
        /\ envelopes[e].status = Finished
        /\ ClaimsOf(e) = 2

\* C33: an Expired envelope has remainingAmount == 0 and remainingCount == 0,
\* and from then on no step adds a Claim row to it or changes its row, whatever
\* the interleaving of the Claims with the Sweeper.
C33_ExpiredIsClosed ==
    /\ [](\A e \in EnvIds :
            envelopes[e].status = Expired =>
               /\ envelopes[e].remainingAmount = 0
               /\ envelopes[e].remainingCount = 0
               /\ \A t \in claimTx : t.env # e)
    /\ [][\A e \in EnvIds :
            envelopes[e].status = Expired =>
               /\ ClaimsOf(e)' = ClaimsOf(e)
               /\ envelopes'[e] = envelopes[e]
               /\ \A t \in claimTx' : t.env # e]_vars

\* the Sweeper has expired an envelope that a Claim had taken a share of, and
\* another user who holds no Claim on it is there to ask for one
C33_Witness ==
    \E e \in EnvIds :
        /\ envelopes[e].status = Expired
        /\ ClaimsOf(e) >= 1
        /\ ClaimsOf(e) < envelopes[e].totalCount
        /\ \E u \in Users : ~HasClaimRow(e, u)

\* C34: every share computed for a Random envelope is at most twice the
\* average of the pool that claim found: share <= 2 * remaining / count.
C34_AtMostTwiceAverage ==
    \A t \in claimTx :
        t.row.type = Random =>
            t.amount * t.row.remainingCount <= 2 * t.row.remainingAmount

\* a Claim that is not the last one is given exactly twice the average
C34_Witness ==
    \E t \in claimTx :
        /\ t.row.type = Random
        /\ t.row.remainingCount >= 3
        /\ t.amount >= 2
        /\ t.amount * t.row.remainingCount = 2 * t.row.remainingAmount

\* C35: when a Random envelope holds remaining < 0.01 * count with count >= 2
\* the share is the even split round(remaining / count, 2), with
\* 0 <= share <= remaining, so the fallback never drives remainingAmount
\* negative.
C35_FallbackEvenSplit ==
    /\ \A t \in claimTx :
         (/\ t.row.type = Random
          /\ t.row.remainingCount >= 2
          /\ t.row.remainingAmount < MinAmount * t.row.remainingCount) =>
            /\ t.amount = (2 * t.row.remainingAmount + t.row.remainingCount)
                              \div (2 * t.row.remainingCount)
            /\ 0 <= t.amount
            /\ t.amount <= t.row.remainingAmount
    /\ \A e \in EnvIds :
         envelopes[e].type = Random => envelopes[e].remainingAmount >= 0

\* the fallback has given 0.00 to one claimer and gives 0.01 to the next,
\* with a third share still to come
C35_Witness ==
    \E t \in claimTx :
        /\ t.row.type = Random
        /\ t.row.totalCount = 4
        /\ t.row.remainingCount = 3
        /\ t.row.remainingAmount = 2
        /\ t.amount = 1
        /\ ClaimsOf(t.env) = 1

\* C36: a Random envelope created with totalAmount >= 0.01 * totalCount keeps
\* remainingAmount >= 0.01 * remainingCount after any sequence of claims,
\* every claim of it receives at least 0.01, and no claim of it takes the
\* even-split fallback.
C36_FundedEnvelopeStaysFunded ==
    \A e \in EnvIds :
        (/\ envelopes[e].type = Random
         /\ envelopes[e].totalAmount >= MinAmount * envelopes[e].totalCount) =>
            /\ envelopes[e].remainingAmount >= MinAmount * envelopes[e].remainingCount
            /\ \A r \in BagToSet(claims) : r.env = e => r.amount >= MinAmount
            /\ \A t \in claimTx : t.env = e =>
                 /\ t.amount >= MinAmount
                 /\ ~(/\ t.row.remainingCount >= 2
                      /\ t.row.remainingAmount < MinAmount * t.row.remainingCount)

\* an envelope of 0.09 over four shares has been claimed four times
C36_Witness ==
    \E e \in EnvIds :
        /\ envelopes[e].type = Random
        /\ envelopes[e].totalAmount = 9
        /\ envelopes[e].totalCount = 4
        /\ envelopes[e].status = Finished
        /\ ClaimsOf(e) = 4

\* C37: each envelope is refunded at most once, also when two Sweeper runs
\* that both selected the envelope execute concurrently: at most one refund
\* journal entry exists for it, and so the creator is credited for it at most
\* once (the credit and the entry are written by the same transaction).
C37_RefundedOnce == \A e \in EnvIds : RefundsOf(e) <= 1

\* the transactions in flight: the Creates and Claims between their locking
\* read and their commit, and the envelopes a sweeper run has still to process
Transactions ==
    {[kind |-> "create", user |-> u] : u \in {v \in Users : createTx[v].active}}
    \cup {[kind |-> "claim", tx |-> t] : t \in claimTx}
    \cup UNION {{[kind |-> "sweep", run |-> s, item |-> item] : item \in sweep[s]} :
                    s \in Sweepers}

\* the row locks a transaction in flight holds
Holds(x) ==
    CASE x.kind = "create" -> {<<"user", x.user>>}
      [] x.kind = "claim"  -> {<<"envelope", x.tx.env>>}
      [] x.kind = "sweep"  -> {}

\* the row locks it has still to take before it commits
Needs(x) ==
    CASE x.kind = "create" -> {}
      [] x.kind = "claim"  -> {<<"user", x.tx.user>>}
      [] x.kind = "sweep"  -> {<<"envelope", x.item.id>>}
                              \cup IF RefundAmount(x.item) > 0
                                   THEN {<<"user", x.item.row.creator>>} ELSE {}

\* x waits for a row lock that y holds
WaitsFor(x, y) == x # y /\ Needs(x) \cap Holds(y) # {}

\* the transactions x waits for, directly or through others
RECURSIVE WaitsOn(_, _)
WaitsOn(S, n) ==
    IF n = 0 THEN S
    ELSE WaitsOn(S \cup {y \in Transactions : \E x \in S : WaitsFor(x, y)}, n - 1)

Blockers(x) ==
    WaitsOn({y \in Transactions : WaitsFor(x, y)}, Cardinality(Transactions))

\* the step that commits a transaction in flight can be taken
CanCommit(x) ==
    CASE x.kind = "create" -> ENABLED CreateCommit(x.user)
      [] x.kind = "claim"  -> ENABLED ClaimCommit(x.tx)
      [] x.kind = "sweep"  -> ENABLED SweepItem(x.run, x.item)

C39_ClaimCount ==
    \A e \in EnvIds :
        /\ envelopes[e].status \in {Active, Finished} =>
             ClaimsOf(e) = envelopes[e].totalCount - envelopes[e].remainingCount
        /\ 0 <= envelopes[e].remainingCount
        /\ envelopes[e].remainingCount <= envelopes[e].totalCount
        /\ ClaimsOf(e) <= envelopes[e].totalCount

\* an envelope of three shares has two Claim rows and the Claim of the third
\* share is in flight
C39_Witness ==
    \E e \in EnvIds :
        /\ envelopes[e].totalCount = 3
        /\ envelopes[e].status = Active
        /\ ClaimsOf(e) = 2
        /\ \E t \in claimTx : t.env = e

\* C40: Claim decides its rejection in a fixed order: not found, then
\* expired, then finished, then already claimed. A user who holds a Claim on
\* an envelope past expiresAt is told 'expired', on a Finished envelope not
\* past expiresAt 'finished', and 'already claimed' only on an envelope that
\* is neither; a rejected Claim changes nothing. (The answers are those of a
\* call that obtained the row lock, with the feature enabled.)
C40_RejectionOrder ==
    /\ [](\A u \in Users, code \in Codes :
            (code \in EnvIds => ~EnvLocked(code)) =>
                ClaimAnswers(u, code) =
                    IF code \notin EnvIds THEN {"not_found"}
                    ELSE IF envelopes[code].status = Expired
                            \/ envelopes[code].expiresAt < now THEN {"expired"}
                    ELSE IF envelopes[code].status = Finished
                            \/ envelopes[code].remainingCount <= 0 THEN {"finished"}
                    ELSE IF HasClaimRow(code, u) THEN {"already_claimed"}
                    ELSE {})
    /\ [][ClaimAnswered /\ resp'.result \in
                {"not_found", "expired", "finished", "already_claimed"} =>
             NothingWritten]_vars

\* a user who holds a Claim on an envelope that is past expiresAt, not yet
\* swept and not Finished, has called again and been told 'expired'
C40_Witness ==
    /\ resp.op = "claim"
    /\ resp.result = "expired"
    /\ resp.code \in EnvIds
    /\ HasClaimRow(resp.code, resp.user)
    /\ envelopes[resp.code].status = Active
    /\ envelopes[resp.code].remainingCount >= 1
    /\ envelopes[resp.code].expiresAt < now

============================================================================
